---- MODULE Spec2Model ----
(***************************************************************************)
(* uvdata/telescopes.py: the Telescope entity (a bundle of UVParameters    *)
(* exposed as properties that __init__ binds on the class), its equality,  *)
(* and the telescopes() table walk that builds the known instruments.      *)
(*                                                                         *)
(* Units.  Lengths are whole millimetres, so the 1e-3 m tolerance is 1.    *)
(* Angles are whole steps of 2*pi/86.4e6 rad, so the angle tolerance       *)
(* 2*pi*1e-3/(60*60*24) is 1 and a quarter turn is 21600000.               *)
(***************************************************************************)
EXTENDS Integers, Sequences, FiniteSets, TLC

(* ----------------------------- bounds --------------------------------- *)
\* Telescope() calls made by a caller.
MaxObjs == 2
\* Fields (over all caller-made objects) holding a value a caller has set.
MaxTouched == 2

(* ----------------------------- values --------------------------------- *)
\* Python values, tagged: None, a str, a float, or a UVParameter instance
\* handed in as a value.
None == [t |-> "none", s |-> "", n |-> 0]
Str(s) == [t |-> "str", s |-> s, n |-> 0]
Flt(n) == [t |-> "float", s |-> "", n |-> n]
ParamObj == [t |-> "param", s |-> "foo", n |-> 0]

\* What a caller assigns to each field: None, values of the declared kind, and
\* values of another kind.
Inputs(f) ==
  CASE f = "telescope_name" -> {None, Str("HERA"), Flt(0)}
    [] f = "xyz_telescope_frame" -> {None, Str("ITRF"), ParamObj}
    [] f = "x_telescope" -> {None, Flt(0), ParamObj}
    [] f = "y_telescope" -> {None, Flt(0), ParamObj}
    [] f = "z_telescope" -> {None, Flt(0)}
    [] f = "latitude" -> {None, Flt(0), Flt(1), Flt(2), Str("HERA")}
    [] f = "longitude" -> {None, Flt(0), ParamObj}
    [] f = "altitude" -> {None, Flt(0), Str("HERA")}

(* ----------------------------- schema --------------------------------- *)
TolLength == 1
TolAngle == 1
NoTol == 0 - 1

ParamAttrs ==
  {"_telescope_name", "_xyz_telescope_frame", "_x_telescope", "_y_telescope",
   "_z_telescope", "_latitude", "_longitude", "_altitude"}

PublicNames ==
  {"telescope_name", "xyz_telescope_frame", "x_telescope", "y_telescope",
   "z_telescope", "latitude", "longitude", "altitude"}

\* dir(self) is sorted; the callables and the dunder names are left out.
DirOrder ==
  << "_altitude", "_latitude", "_longitude", "_telescope_name", "_x_telescope",
     "_xyz_telescope_frame", "_y_telescope", "_z_telescope",
     "altitude", "latitude", "longitude", "telescope_name", "x_telescope",
     "xyz_telescope_frame", "y_telescope", "z_telescope" >>

\* uvp.UVParameter(name, form=, expected_type=, tols=) / uvp.AngleParameter:
\* what is not passed is "" (nothing declared).
UVParameter(name, form, expected_type, tols) ==
  [name |-> name, value |-> None, form |-> form,
   expected_type |-> expected_type, tols |-> tols, required |-> TRUE]

\* The instance attributes __init__ assigns (lines 11-43).
NewInstance ==
  [a \in ParamAttrs |->
     CASE a = "_telescope_name" -> UVParameter("telescope_name", "str", "", NoTol)
       [] a = "_xyz_telescope_frame" ->
            UVParameter("xyz_telescope_frame", "str", "", NoTol)
       [] a = "_x_telescope" -> UVParameter("x_telescope", "", "", TolLength)
       [] a = "_y_telescope" -> UVParameter("y_telescope", "", "", TolLength)
       [] a = "_z_telescope" -> UVParameter("z_telescope", "", "", TolLength)
       [] a = "_latitude" -> UVParameter("latitude", "", "float", TolAngle)
       [] a = "_longitude" -> UVParameter("longitude", "", "float", TolAngle)
       [] a = "_altitude" -> UVParameter("altitude", "", "float", TolLength)]

(* ---------------------------- Parameter ------------------------------- *)
\* Parameter.set's validation: "" when the value is accepted, else the error.
\* None is the unset marker and is always accepted.
Validate(param, value) ==
  IF value.t = "none" THEN ""
  ELSE IF param.expected_type # "" /\ value.t # param.expected_type
         THEN "TypeMismatch"
  ELSE IF param.form = "str" /\ value.t # "str" THEN "ShapeMismatch"
  ELSE ""

Abs(n) == IF n < 0 THEN 0 - n ELSE n

\* Values match: exactly for discrete values, within tols for floats.
ValuesMatch(v, w, tols) ==
  IF v.t = "float" /\ w.t = "float" /\ tols >= 0
    THEN Abs(v.n - w.n) <= tols
    ELSE v = w

\* Parameter.equals: same name, same declared type and form, matching values.
ParamEq(p, q) ==
  /\ p.name = q.name
  /\ p.form = q.form
  /\ p.expected_type = q.expected_type
  /\ ValuesMatch(p.value, q.value, p.tols)

\* UVParameter.__ne__ with a UVParameter instance on the left that is itself
\* a stored value: equal only to another UVParameter instance like it.
ValueParamNe(v, w) == ~(w.t = "param" /\ v = w)

(* ----------------------------- state ---------------------------------- *)
VARIABLES
  objs,        \* the Telescope instances callers hold, in order of construction
  classProps,  \* Telescope.__dict__: public name -> attribute its property reads
  written,     \* per instance and field, the value last stored by a set
  registry,    \* the dict telescopes() fills, once it has run to its end
  last         \* the last call: what it raised, returned and printed

vars == <<objs, classProps, written, registry, last>>

NoCall ==
  [op |-> "init", raised |-> "", ret |-> "", printed |-> <<>>, table |-> <<>>]

(* ---------------------------- Telescope ------------------------------- *)
\* fget of the property bound to param_name, called on instance self.
prop_fget(self, param_name) == self[param_name].value

\* The mutant: the value is stored although the Parameter refused it.
prop_fset_unchecked(heap, i, param_name, value) ==
  [raised |-> "",
   heap |-> [heap EXCEPT ![i][param_name].value = value]]

\* The mutant: the Parameters live on the class, one per name for all instances.
prop_fset_shared(heap, i, param_name, value) ==
  LET err == Validate(heap[i][param_name], value)
  IN IF err # "" THEN [raised |-> err, heap |-> heap]
     ELSE [raised |-> "",
           heap |-> [k \in DOMAIN heap |->
                       [heap[k] EXCEPT ![param_name].value = value]]]

\* fset of the property bound to param_name, called on instance heap[i]:
\* this_param.value = value validates and may raise; nothing is stored then.
prop_fset(heap, i, param_name, value) ==
  LET this_param == heap[i][param_name]
      err == Validate(this_param, value)
  IN IF err # "" THEN [raised |-> err, heap |-> heap]
     ELSE [raised |-> "",
           heap |-> [heap EXCEPT ![i][param_name] =
                       [this_param EXCEPT !.value = value]]]

\* isinstance(getattr(self, a), uvp.UVParameter) for a name of dir(self): an
\* underscore attribute holds a UVParameter; a public name is a property (once
\* bound) and getattr returns the stored value, whatever it is.
IsParameterAttr(cp, self, a) ==
  IF a \in ParamAttrs THEN TRUE
  ELSE cp[a] # "" /\ prop_fget(self, cp[a]).t = "param"

parameter_iter(cp, self) ==
  SelectSeq(DirOrder, LAMBDA a : IsParameterAttr(cp, self, a))

Range(seq) == {seq[k] : k \in DOMAIN seq}

\* Telescope(): the fresh instance, and the class with every property re-bound.
Telescope_init(cp) ==
  LET self == NewInstance
      ps == Range(parameter_iter(cp, self))
  IN [obj |-> self,
      cp |-> [n \in PublicNames |->
                IF \E p \in ps : self[p].name = n
                  THEN CHOOSE p \in ps : self[p].name = n
                  ELSE cp[n]]]

\* self_param != other_param for one name p of parameter_iter.
PairDiffers(cp, self, other, p) ==
  IF p \in ParamAttrs THEN ~ParamEq(self[p], other[p])
  ELSE ValueParamNe(prop_fget(self, cp[p]), prop_fget(other, cp[p]))

\* The mutant: isequal is overwritten by each pair, so the last pair decides.
RECURSIVE EqLoopOverwrite(_, _, _, _, _)
EqLoopOverwrite(cp, self, other, ps, isequal) ==
  IF ps = <<>> THEN isequal
  ELSE EqLoopOverwrite(cp, self, other, Tail(ps),
                       ~PairDiffers(cp, self, other, Head(ps)))

\* The loop of __eq__: no break, isequal only ever goes to False.
RECURSIVE EqLoop(_, _, _, _, _)
EqLoop(cp, self, other, ps, isequal) ==
  IF ps = <<>> THEN isequal
  ELSE EqLoop(cp, self, other, Tail(ps),
              IF PairDiffers(cp, self, other, Head(ps)) THEN FALSE ELSE isequal)

\* The mutant: the other-class branch prints nothing.
Telescope_eq_silent(cp, self, other) ==
  IF other.kind = "Telescope"
    THEN [ret |-> EqLoop(cp, self, other.obj, parameter_iter(cp, self), TRUE),
          printed |-> <<>>, compared |-> parameter_iter(cp, self)]
    ELSE [ret |-> FALSE, printed |-> <<>>, compared |-> <<>>]

\* Telescope.__eq__(self, other): the result, the lines printed, the names
\* whose pair was compared.  The per-parameter print is commented out.
Telescope_eq(cp, self, other) ==
  IF other.kind = "Telescope"
    THEN [ret |-> EqLoop(cp, self, other.obj, parameter_iter(cp, self), TRUE),
          printed |-> <<>>, compared |-> parameter_iter(cp, self)]
    ELSE [ret |-> FALSE, printed |-> <<"Classes do not match">>,
          compared |-> <<>>]

\* Telescope.__ne__
Telescope_ne(cp, self, other) == ~Telescope_eq(cp, self, other).ret

(* ------------------------ CoordinateTransform ------------------------- *)
\* utils.XYZ_from_LatLonAlt / utils.LatLonAlt_from_XYZ on the points where the
\* ellipsoid formulas are exact in integers: latitude 0 or a pole, longitude
\* a multiple of a quarter turn.  The semi-axes are the WGS84 ones at 1/1000
\* scale, to stay inside 32-bit integers.
QuarterTurn == 21600000
SemiMajor == 6378137
SemiMinor == 6356752

Cos(a) ==
  CASE a = 0 -> 1
    [] a = QuarterTurn \/ a = 0 - QuarterTurn -> 0
    [] a = 2 * QuarterTurn -> 0 - 1
Sin(a) ==
  CASE a = 0 \/ a = 2 * QuarterTurn -> 0
    [] a = QuarterTurn -> 1
    [] a = 0 - QuarterTurn -> 0 - 1

XYZ_from_LatLonAlt(latitude, longitude, altitude) ==
  IF latitude = 0
    THEN << (SemiMajor + altitude) * Cos(longitude),
            (SemiMajor + altitude) * Sin(longitude), 0 >>
    ELSE << 0, 0, (SemiMinor + altitude) * Sin(latitude) >>

\* <<latitude, longitude, altitude>>
LatLonAlt_from_XYZ(xyz) ==
  IF xyz[1] = 0 /\ xyz[2] = 0
    THEN << IF xyz[3] > 0 THEN QuarterTurn ELSE 0 - QuarterTurn, 0,
            Abs(xyz[3]) - SemiMinor >>
    ELSE << 0,
            IF xyz[2] = 0 THEN (IF xyz[1] > 0 THEN 0 ELSE 2 * QuarterTurn)
            ELSE (IF xyz[2] > 0 THEN QuarterTurn ELSE 0 - QuarterTurn),
            Abs(xyz[1]) + Abs(xyz[2]) - SemiMajor >>

(* ----------------------------- telescopes() --------------------------- *)
\* One dict of dict_list.  A key that is absent: has_xyz / has_lla FALSE,
\* frame "".
Entry(name, has_xyz, frame, lla, has_lla) ==
  [name |-> name, has_xyz |-> has_xyz, frame |-> frame,
   center_xyz |-> XYZ_from_LatLonAlt(lla[1], lla[2], lla[3]),
   has_lla |-> has_lla,
   latitude |-> lla[1], longitude |-> lla[2], altitude |-> lla[3]]

\* The positions the table gives the three instruments.
Position(name) ==
  CASE name = "PAPER_SA" -> << 0, QuarterTurn, 1100 >>
    [] name = "HERA" -> << 0, 0, 1000 >>
    [] name = "MWA" -> << 0, 2 * QuarterTurn, 400 >>

Names == << "PAPER_SA", "HERA", "MWA" >>

\* The table as written: every key present, frame 'ITRF'.
FullEntry(name) == Entry(name, TRUE, "ITRF", Position(name), TRUE)

\* The forms an entry can take: with or without center_xyz, with or without
\* frame ('ITRF' or another), with or without latitude/longitude/altitude.
EntryForms(name) ==
  {Entry(name, hx, fr, Position(name), hl) :
     hx \in BOOLEAN, fr \in {"", "ITRF", "FK5"}, hl \in BOOLEAN}

\* The tables telescopes() is run on: the three instruments in the order
\* written, each entry in any of its forms.
Tables ==
  {tb \in [1..3 -> UNION {EntryForms(Names[k]) : k \in 1..3}] :
     \A k \in 1..3 : tb[k].name = Names[k]}

HasCartesian(t) == t.has_xyz /\ t.frame # ""

\* obj.f = v for each <<f, v>> of assigns in turn, stopping at the first raise.
RECURSIVE SetAll(_, _, _)
SetAll(cp, obj, assigns) ==
  IF assigns = <<>> THEN [raised |-> "", obj |-> obj]
  ELSE LET r == prop_fset(<<obj>>, 1, cp[Head(assigns)[1]], Head(assigns)[2])
       IN IF r.raised # "" THEN [raised |-> r.raised, obj |-> obj]
          ELSE SetAll(cp, r.heap[1], Tail(assigns))

\* Raise err once the assignments before it went through.
ThenRaise(r, err) == IF r.raised # "" THEN r ELSE [r EXCEPT !.raised = err]

GivenXYZ(t) ==
  << <<"xyz_telescope_frame", Str(t.frame)>>,
     <<"x_telescope", Flt(t.center_xyz[1])>>,
     <<"y_telescope", Flt(t.center_xyz[2])>>,
     <<"z_telescope", Flt(t.center_xyz[3])>> >>

\* The mutant: the frame is checked for every entry with center_xyz and frame.
BuildEntryStrict(cp, t) ==
  LET c == Telescope_init(cp)
      named == << <<"telescope_name", Str(t.name)>> >>
      r == IF HasCartesian(t) /\ t.frame # "ITRF"
             THEN ThenRaise(SetAll(c.cp, c.obj, named \o GivenXYZ(t)), "ValueError")
           ELSE IF t.has_lla
             THEN SetAll(c.cp, c.obj, named \o GivenXYZ(t) \o
                    << <<"latitude", Flt(t.latitude)>>,
                       <<"longitude", Flt(t.longitude)>>,
                       <<"altitude", Flt(t.altitude)>> >>)
           ELSE ThenRaise(SetAll(c.cp, c.obj, named), "ValueError")
  IN [raised |-> r.raised, obj |-> r.obj, cp |-> c.cp]

\* The body of the loop of telescopes() for one entry (lines 113-148).
BuildEntry(cp, t) ==
  LET c == Telescope_init(cp)
      named == << <<"telescope_name", Str(t.name)>> >>
      r ==
        IF HasCartesian(t)
          THEN IF t.has_lla
                 THEN SetAll(c.cp, c.obj, named \o GivenXYZ(t) \o
                        << <<"latitude", Flt(t.latitude)>>,
                           <<"longitude", Flt(t.longitude)>>,
                           <<"altitude", Flt(t.altitude)>> >>)
               ELSE IF t.frame = "ITRF"
                 THEN LET lla == LatLonAlt_from_XYZ(t.center_xyz)
                      IN SetAll(c.cp, c.obj, named \o GivenXYZ(t) \o
                           << <<"latitude", Flt(lla[1])>>,
                              <<"longitude", Flt(lla[2])>>,
                              <<"altitude", Flt(lla[3])>> >>)
               ELSE ThenRaise(SetAll(c.cp, c.obj, named \o GivenXYZ(t)),
                              "ValueError")
          ELSE IF ~t.has_lla
                 THEN ThenRaise(SetAll(c.cp, c.obj, named), "ValueError")
               ELSE LET xyz == XYZ_from_LatLonAlt(t.latitude, t.longitude,
                                                  t.altitude)
                    IN SetAll(c.cp, c.obj, named \o
                         << <<"latitude", Flt(t.latitude)>>,
                            <<"longitude", Flt(t.longitude)>>,
                            <<"latitude", Flt(t.latitude)>>,
                            <<"xyz_telescope_frame", Str("ITRF")>>,
                            <<"x_telescope", Flt(xyz[1])>>,
                            <<"y_telescope", Flt(xyz[2])>>,
                            <<"z_telescope", Flt(xyz[3])>> >>)
  IN [raised |-> r.raised, obj |-> r.obj, cp |-> c.cp]

\* The mutant: every entry is filed under the first entry's name.
RECURSIVE telescopes_one_key(_, _, _, _)
telescopes_one_key(cp, table, k, dict) ==
  IF k > Len(table) THEN [raised |-> "", dict |-> dict, cp |-> cp]
  ELSE LET r == BuildEntry(cp, table[k])
       IN IF r.raised # "" THEN [raised |-> r.raised, dict |-> dict, cp |-> r.cp]
          ELSE telescopes_one_key(r.cp, table, k + 1,
                 [n \in {table[1].name} |-> r.obj])

\* telescopes(): the loop over dict_list from entry k on, dict being the
\* local `telescopes` so far; a raise leaves the function.
RECURSIVE telescopes(_, _, _, _)
telescopes(cp, table, k, dict) ==
  IF k > Len(table) THEN [raised |-> "", dict |-> dict, cp |-> cp]
  ELSE LET r == BuildEntry(cp, table[k])
       IN IF r.raised # "" THEN [raised |-> r.raised, dict |-> dict, cp |-> r.cp]
          ELSE telescopes(r.cp, table, k + 1,
                 [n \in DOMAIN dict \cup {table[k].name} |->
                    IF n = table[k].name THEN r.obj ELSE dict[n]])

\* Entity.isValid(): every required Parameter is set and individually valid.
isValid(self) ==
  \A a \in ParamAttrs :
    self[a].required => (self[a].value # None /\ Validate(self[a], self[a].value) = "")

\* Registry.lookup(name): the entity filed under exactly that name.
lookup(reg, name) ==
  IF name \in DOMAIN reg.dict
    THEN [raised |-> "", obj |-> reg.dict[name]]
    ELSE [raised |-> "NotFound", obj |-> NewInstance]

(* ----------------------------- actions -------------------------------- *)
NotATelescope == [kind |-> "other", obj |-> NewInstance]
AsOther(heap, j) ==
  IF j = 0 THEN NotATelescope ELSE [kind |-> "Telescope", obj |-> heap[j]]

Touched(heap) ==
  {<<k, a>> \in (DOMAIN heap) \X ParamAttrs : heap[k][a].value # None}

BoolStr(b) == IF b THEN "True" ELSE "False"

NoRegistry == [built |-> FALSE, dict |-> [n \in {} |-> NewInstance]]

Init ==
  /\ objs = <<>>
  /\ classProps = [n \in PublicNames |-> ""]
  /\ written = <<>>
  /\ registry = NoRegistry
  /\ last = NoCall

\* t = Telescope()
New ==
  /\ Len(objs) < MaxObjs
  /\ LET r == Telescope_init(classProps)
     IN /\ objs' = Append(objs, r.obj)
        /\ classProps' = r.cp
        /\ written' = Append(written, [n \in PublicNames |-> None])
        /\ last' = [NoCall EXCEPT !.op = "new"]
  /\ UNCHANGED registry

\* objs[i].f = v, through the property the class holds for f.
Assign(i, f, v) ==
  /\ i \in DOMAIN objs
  /\ classProps[f] # ""
  /\ LET r == prop_fset(objs, i, classProps[f], v)
     IN /\ objs' = r.heap
        /\ written' = IF r.raised = "" THEN [written EXCEPT ![i][f] = v]
                      ELSE written
        /\ last' = [NoCall EXCEPT !.op = "set", !.raised = r.raised]
  /\ UNCHANGED <<classProps, registry>>

\* The same, while few fields hold a value.
Set(i, f, v) ==
  /\ Cardinality(Touched(objs) \cup {<<i, classProps[f]>>}) <= MaxTouched
  /\ Assign(i, f, v)

\* objs[i] == other, other being objs[j] or (j = 0) an object of another class.
Eq(i, j) ==
  /\ i \in DOMAIN objs
  /\ j \in {0} \cup DOMAIN objs
  /\ LET r == Telescope_eq(classProps, objs[i], AsOther(objs, j))
     IN last' = [NoCall EXCEPT !.op = "eq", !.ret = BoolStr(r.ret),
                               !.printed = r.printed]
  /\ UNCHANGED <<objs, classProps, written, registry>>

Next ==
  \/ New
  \/ \E i \in 1..MaxObjs, f \in PublicNames : \E v \in Inputs(f) : Set(i, f, v)
  \/ \E i \in 1..MaxObjs, j \in 0..MaxObjs : Eq(i, j)

Spec == Init /\ [][Next]_vars

\* telescopes() run on a table, once, as the process starts.
Build(table) ==
  /\ last.op = "init"
  /\ LET r == telescopes(classProps, table, 1, NoRegistry.dict)
     IN /\ classProps' = r.cp
        /\ registry' = IF r.raised = "" THEN [built |-> TRUE, dict |-> r.dict]
                       ELSE NoRegistry
        /\ last' = [NoCall EXCEPT !.op = "telescopes", !.raised = r.raised,
                                  !.table = table]
  /\ UNCHANGED <<objs, written>>

LookupNames == {"PAPER_SA", "HERA", "MWA", "nonexistent", "hera"}

\* lookup(name) on the registry telescopes() built.
Lookup(name) ==
  /\ registry.built
  /\ LET r == lookup(registry, name)
     IN last' = [NoCall EXCEPT !.op = "lookup", !.raised = r.raised,
                   !.ret = IF r.raised = "" THEN
                             prop_fget(r.obj, classProps["telescope_name"]).s
                           ELSE "",
                   !.printed = <<name>>]
  /\ UNCHANGED <<objs, classProps, written, registry>>

NextReg ==
  \/ \E table \in Tables : Build(table)
  \/ \E name \in LookupNames : Lookup(name)

SpecReg == Init /\ [][NextReg]_vars

(* A caller holding one Telescope whose fields are, each, unset or set to a  *)
(* value its Parameter accepts.                                              *)
Populated ==
  {e \in [ParamAttrs -> UNION {Inputs(f) : f \in PublicNames}] :
     \A f \in PublicNames :
       e["_" \o f] \in Inputs(f) /\ Validate(NewInstance["_" \o f], e["_" \o f]) = ""}

InitValid ==
  /\ \E e \in Populated :
       /\ objs = << [a \in ParamAttrs |-> [NewInstance[a] EXCEPT !.value = e[a]]] >>
       /\ written = << [f \in PublicNames |-> e["_" \o f]] >>
  /\ classProps = Telescope_init([n \in PublicNames |-> ""]).cp
  /\ registry = NoRegistry
  /\ last = [NoCall EXCEPT !.op = "new"]

\* objs[i].isValid()
IsValidCall(i) ==
  /\ i \in DOMAIN objs
  /\ last' = [NoCall EXCEPT !.op = "isValid", !.ret = BoolStr(isValid(objs[i]))]
  /\ UNCHANGED <<objs, classProps, written, registry>>

NextValid ==
  \/ \E f \in PublicNames : \E v \in Inputs(f) : Assign(1, f, v)
  \/ IsValidCall(1)

SpecValid == InitValid /\ [][NextValid]_vars

(* ----------------------------- claims --------------------------------- *)
EqOf(i, j) == Telescope_eq(classProps, objs[i], AsOther(objs, j))
Get(i, f) == prop_fget(objs[i], classProps[f])
DeclaredIter == SelectSeq(DirOrder, LAMBDA a : a \in ParamAttrs)

\* C1: for any two Telescopes a and b, a == b returns True exactly when every
\* one of the eight declared Parameter pairs, matched by name, compares equal,
\* and False as soon as at least one pair differs.
C1_EqIffAllPairsEqual ==
  \A i \in DOMAIN objs, j \in DOMAIN objs :
    EqOf(i, j).ret <=> \A a \in ParamAttrs : ParamEq(objs[i][a], objs[j][a])

\* Two distinct Telescopes with different latitudes within the tolerance were
\* compared and found equal.
C1_Witness ==
  /\ last.op = "eq" /\ last.ret = "True"
  /\ Len(objs) = 2
  /\ Get(1, "latitude") = Flt(0) /\ Get(2, "latitude") = Flt(1)
  /\ EqOf(1, 2).ret

\* C2: a set through the accessor of a value the field's Parameter refuses
\* fails with that TypeMismatch or ShapeMismatch, unchanged, and stores
\* nothing.
C2_SetValidates ==
  [][\A i \in DOMAIN objs, f \in PublicNames : \A v \in Inputs(f) :
       (Validate(objs[i][classProps[f]], v) # "" /\ Assign(i, f, v)) =>
          /\ last'.raised = Validate(objs[i][classProps[f]], v)
          /\ last'.raised \in {"TypeMismatch", "ShapeMismatch"}
          /\ objs' = objs]_vars

\* A set was refused with TypeMismatch on a Telescope whose fields all hold
\* a value, latitude among them.
C2_Witness ==
  /\ last.op = "set" /\ last.raised = "TypeMismatch"
  /\ \E i \in DOMAIN objs :
       Get(i, "latitude") = Flt(2) /\ \A f \in PublicNames : Get(i, f) # None

\* C5: reading field f of Telescope e returns the value last set on that
\* (e, f), None if there was none; so a set on (e, f) changes no other field
\* of e and no field of another Telescope, whichever construction bound the
\* accessors last.
C5_NoSharedState ==
  \A i \in DOMAIN objs, f \in PublicNames :
    classProps[f] # "" /\ Get(i, f) = written[i][f]

\* Two Telescopes hold different values in the same field, each the one last
\* set on it.
C5_Witness ==
  /\ Len(objs) = 2
  /\ written[1]["latitude"] = Flt(0) /\ written[2]["latitude"] = Flt(2)
  /\ last.op = "set"

\* C6: comparing a Telescope with an object of another class returns False
\* and prints a line that no comparison of two Telescopes prints, so the two
\* ways of getting False can be told apart.
C6_KindMismatchDistinct ==
  \A i \in DOMAIN objs :
    LET r == EqOf(i, 0)
    IN /\ ~r.ret
       /\ r.printed # <<>>
       /\ \A j \in DOMAIN objs : ~EqOf(i, j).ret => EqOf(i, j).printed # r.printed

\* A Telescope was compared with an object of another class while two
\* Telescopes that differ exist.
C6_Witness ==
  /\ last.op = "eq" /\ last.ret = "False"
  /\ last.printed = <<"Classes do not match">>
  /\ \E i \in DOMAIN objs, j \in DOMAIN objs : ~EqOf(i, j).ret

\* C9: when two Telescopes compare unequal, every Parameter pair has been
\* compared and each parameter that differs is named in what the comparison
\* printed.
C9_DifferencesReported ==
  \A i \in DOMAIN objs, j \in DOMAIN objs :
    LET r == EqOf(i, j)
    IN ~r.ret =>
         /\ ParamAttrs \subseteq Range(r.compared)
         /\ \A a \in ParamAttrs :
              ~ParamEq(objs[i][a], objs[j][a]) =>
                 \E k \in DOMAIN r.printed : r.printed[k] = objs[i][a].name

\* C10: parameter_iter yields the eight underscore attributes declared in
\* __init__, each once, and no public name, whatever the fields hold.
C10_IterIsDeclaredSchema ==
  \A i \in DOMAIN objs : parameter_iter(classProps, objs[i]) = DeclaredIter

RegGet(name, f) == prop_fget(registry.dict[name], classProps[f])
Accepted(t) ==
  IF HasCartesian(t) THEN t.has_lla \/ t.frame = "ITRF" ELSE t.has_lla

\* C3: every entity telescopes() builds from an accepted entry has frame, x,
\* y, z, latitude, longitude and altitude all set: the ones the entry
\* supplies as supplied, the others as CoordinateTransform gives them from
\* the supplied ones.
C3_BothRepresentations ==
  (last.op = "telescopes" /\ last.raised = "") =>
    \A k \in DOMAIN last.table :
      LET t == last.table[k]
          xyz == IF HasCartesian(t) THEN t.center_xyz
                 ELSE XYZ_from_LatLonAlt(t.latitude, t.longitude, t.altitude)
          lla == IF t.has_lla THEN <<t.latitude, t.longitude, t.altitude>>
                 ELSE LatLonAlt_from_XYZ(t.center_xyz)
      IN /\ RegGet(t.name, "xyz_telescope_frame") =
              Str(IF HasCartesian(t) THEN t.frame ELSE "ITRF")
         /\ RegGet(t.name, "x_telescope") = Flt(xyz[1])
         /\ RegGet(t.name, "y_telescope") = Flt(xyz[2])
         /\ RegGet(t.name, "z_telescope") = Flt(xyz[3])
         /\ RegGet(t.name, "latitude") = Flt(lla[1])
         /\ RegGet(t.name, "longitude") = Flt(lla[2])
         /\ RegGet(t.name, "altitude") = Flt(lla[3])

\* C4 as claimed: whenever an entry supplies center_xyz with a frame that is
\* not "ITRF", telescopes() fails, also when the entry supplies latitude,
\* longitude and altitude as well.
C4_FrameAlwaysValidated ==
  last.op = "telescopes" =>
    ((\E k \in DOMAIN last.table :
        HasCartesian(last.table[k]) /\ last.table[k].frame # "ITRF")
       => last.raised = "ValueError")

\* C4 as amended: telescopes() fails on an entry that supplies center_xyz
\* with a frame that is not "ITRF" when that entry lacks latitude, longitude
\* or altitude; an entry that supplies them too is accepted whatever its
\* frame, and the frame is stored as given.
C4_FrameValidatedWhenDerived ==
  last.op = "telescopes" =>
    /\ last.raised \in {"", "ValueError"}
    /\ last.raised = "" <=> \A k \in DOMAIN last.table : Accepted(last.table[k])
    /\ last.raised = "" <=> registry.built
    /\ last.raised = "" =>
         \A k \in DOMAIN last.table :
           HasCartesian(last.table[k]) =>
             RegGet(last.table[k].name, "xyz_telescope_frame") =
               Str(last.table[k].frame)

\* telescopes() failed on a table whose only fault is an entry with
\* center_xyz in another frame and no latitude, longitude, altitude.
C4_Witness ==
  /\ last.op = "telescopes" /\ last.raised = "ValueError"
  /\ \E k \in DOMAIN last.table :
       /\ HasCartesian(last.table[k]) /\ last.table[k].frame = "FK5"
       /\ ~last.table[k].has_lla
       /\ \A m \in DOMAIN last.table : m # k => Accepted(last.table[m])

====
